---- MODULE Spec2Model ----
(***************************************************************************)
(* Model of the LOVE CSC authorization model (ts_love_csc):                *)
(*   python/lsst/ts/love/csc/utils.py                parse_auth_request    *)
(*   python/lsst/ts/love/csc/authorization_model.py  AuthorizationModel    *)
(*                                                                         *)
(* Python strings are modelled as sequences of one-character strings, so   *)
(* that str.split, str.startswith, item[1:] and ",".join are computed as   *)
(* the code computes them.  Python sets are TLA+ sets, the authorization   *)
(* dict is a function whose DOMAIN is the set of keys of the dict.         *)
(***************************************************************************)
EXTENDS Naturals, Sequences, FiniteSets, TLC

VARIABLES authorization, auto_accept_request, gen, yielded, call,
          auth_request, summary_state, callback, evt_authList, enabling,
          command, pushes, echoes

\* The state of the CSC around its AuthorizationModel.
csc_vars == <<summary_state, callback, evt_authList, enabling>>

\* The requestAuthorization command being processed and its messages.
cmd_vars == <<command, pushes, echoes>>

vars == <<authorization, auto_accept_request, gen, yielded, call,
          auth_request, csc_vars, cmd_vars>>

(***************************************************************************)
(* Bounds and input sets.                                                  *)
(***************************************************************************)
\* Largest number of targets in the cscsToChange field of one request.
MaxTargets == 2

\* Component identities used as targets and as keys of canonical snapshots.
Components == { <<"X", ":", "1">>, <<"X", ":", "2">> }

\* Users and CSCs named by canonical snapshots (set_authorization inputs).
Users == { <<"a">>, <<"b">> }
CSCs == { <<"x">> }

\* Delta expressions for the authorizedUsers field:
\*   ""  "+a"  "-a"  "+b"  "+b,-a"  "+a,+b"  "+a,-a" (conflict)
\*   "+a,b" (missing prefix)
UserExprs ==
    { <<>>,
      <<"+", "a">>,
      <<"-", "a">>,
      <<"+", "b">>,
      <<"+", "b", ",", "-", "a">>,
      <<"+", "a", ",", "+", "b">>,
      <<"+", "a", ",", "-", "a">>,
      <<"+", "a", ",", "b">> }

\* Delta expressions for the nonAuthorizedCSCs field:
\*   ""  "+x"  "-x"  "x" (missing prefix)
CSCExprs ==
    { <<>>,
      <<"+", "x">>,
      <<"-", "x">>,
      <<"x">> }

\* Pairs of delta expressions (authorizedUsers, nonAuthorizedCSCs) carried by
\* requestAuthorization commands:
\*   ("-a", "+x")     both valid
\*   ("+a,b", "+x")   authorizedUsers lacks a prefix
\*   ("-a", "x")      nonAuthorizedCSCs lacks a prefix
RequestExprs ==
    { << <<"-", "a">>, <<"+", "x">> >>,
      << <<"+", "a", ",", "b">>, <<"+", "x">> >>,
      << <<"-", "a">>, <<"x">> >> }

\* Canonical snapshots (authorizedUsers, nonAuthorizedCSCs) that components
\* publish while requests are processed: an empty list, user a alone, users
\* a and b with CSC x.
Snapshots ==
    { << {}, {} >>,
      << { <<"a">> }, {} >>,
      << { <<"a">>, <<"b">> }, { <<"x">> } >> }

\* Largest number of comma-separated tokens in an expression given to
\* parse_auth_request.
MaxTokens == 3

\* Tokens of those expressions:  +a  -a  +b  -b  a  b  (empty)  +  -
RequestTokens ==
    { <<"+", "a">>, <<"-", "a">>, <<"+", "b">>, <<"-", "b">>,
      <<"a">>, <<"b">>, <<>>, <<"+">>, <<"-">> }

\* Names of the components the CSC handles (components_to_handle): X is an
\* indexed component, Y is not.
Remotes == { <<"X">>, <<"Y">> }

Indexed == { <<"X">> }

\* Largest index with which an indexed component publishes its authList.
MaxIndex == 2

\* The (authorizedUsers, nonAuthorizedCSCs) fields of the authList events
\* that components publish:  ("", "")  ("a", "")  ("a,b", "x")
AuthLists ==
    { << <<>>, <<>> >>,
      << <<"a">>, <<>> >>,
      << <<"a", ",", "b">>, <<"x">> >> }

\* Targets of requestAuthorization commands: index 1 of the indexed component
\* X, the component Y, and Z, for which the CSC has no remote.
CommandComponents == { <<"X", ":", "1">>, <<"Y">>, <<"Z">> }

\* Non-empty target lists of at most MaxTargets components (duplicates allowed).
TargetLists == UNION { [1..n -> Components] : n \in 1..MaxTargets }

(***************************************************************************)
(* String helpers (str.split, str.startswith, str.join).                   *)
(***************************************************************************)
Range(s) == { s[i] : i \in 1..Len(s) }

\* request.split(","): "" gives [""], "a," gives ["a", ""].
RECURSIVE split(_, _)
split(s, sep) ==
    IF \A i \in 1..Len(s) : s[i] # sep
    THEN << s >>
    ELSE LET i == CHOOSE k \in 1..Len(s) :
                    s[k] = sep /\ \A j \in 1..(k - 1) : s[j] # sep
         IN  << SubSeq(s, 1, i - 1) >> \o split(SubSeq(s, i + 1, Len(s)), sep)

startswith(item, ch) == Len(item) > 0 /\ item[1] = ch

\* str(n) of a natural number, as in f"{index}".
RECURSIVE str(_)
str(n) ==
    LET digit(d) == << <<"0", "1", "2", "3", "4", "5", "6", "7", "8", "9">>[d + 1] >>
    IN  IF n < 10 THEN digit(n) ELSE str(n \div 10) \o digit(n % 10)

\* int(s) of a string of decimal digits.
RECURSIVE int(_)
int(s) ==
    LET value(ch) == CHOOSE d \in 0..9 : str(d) = << ch >>
    IN  IF Len(s) = 0 THEN 0
        ELSE 10 * int(SubSeq(s, 1, Len(s) - 1)) + value(s[Len(s)])

\* salobj.name_to_name_index: "X:1" gives ("X", 1), "Y" gives ("Y", 0).
name_to_name_index(name) ==
    LET parts == split(name, ":")
    IN  IF Len(parts) = 1
        THEN [name |-> name, index |-> 0]
        ELSE [name |-> parts[1], index |-> int(parts[2])]

\* sep.join(seq) for a sequence of strings.
RECURSIVE join(_, _)
join(sep, seq) ==
    IF Len(seq) = 0 THEN <<>>
    ELSE IF Len(seq) = 1 THEN seq[1]
    ELSE seq[1] \o << sep >> \o join(sep, Tail(seq))

\* The orders in which a Python set may be iterated.
Orders(S) ==
    { f \in [1..Cardinality(S) -> S] :
        \A i, j \in 1..Cardinality(S) : i # j => f[i] # f[j] }

\* The orders in which the event loop may run the steps of two coroutines,
\* each keeping the order of its own steps.
RECURSIVE Interleavings(_, _)
Interleavings(s, t) ==
    IF s = <<>> THEN { t }
    ELSE IF t = <<>> THEN { s }
    ELSE { <<Head(s)>> \o u : u \in Interleavings(Tail(s), t) }
             \cup { <<Head(t)>> \o u : u \in Interleavings(s, Tail(t)) }

\* ",".join(a_set): one string per iteration order of the set.
join_set(S) == { join(",", f) : f \in Orders(S) }

\* The expressions given to parse_auth_request: at most MaxTokens tokens
\* separated by commas (no token gives the empty expression).
RequestStrings ==
    { join(",", tokens) :
        tokens \in UNION { [1..n -> RequestTokens] : n \in 0..MaxTokens } }

(***************************************************************************)
(* utils.parse_auth_request                                                *)
(***************************************************************************)
\* Variant: the prefix is left on the items.
parse_auth_request_keeps_prefix(request) ==
    IF Len(request) = 0
    THEN [raised |-> FALSE, to_add |-> {}, to_remove |-> {}, bad_entries |-> {}]
    ELSE LET request_as_set == Range(split(request, ","))
             to_add == { t \in request_as_set : startswith(t, "+") }
             to_remove == { t \in request_as_set : startswith(t, "-") }
             union == to_add \cup to_remove
         IN  IF Cardinality(union) # Cardinality(request_as_set)
             THEN [raised |-> TRUE, to_add |-> {}, to_remove |-> {},
                   bad_entries |->
                       { item \in request_as_set :
                           ~startswith(item, "+") /\ ~startswith(item, "-") }]
             ELSE [raised |-> FALSE, to_add |-> to_add, to_remove |-> to_remove,
                   bad_entries |-> {}]

\* Variant: every token that is not an addition is reported invalid.
parse_auth_request_reports_removals(request) ==
    IF Len(request) = 0
    THEN [raised |-> FALSE, to_add |-> {}, to_remove |-> {}, bad_entries |-> {}]
    ELSE LET request_as_set == Range(split(request, ","))
             to_add == { Tail(item) :
                         item \in { t \in request_as_set : startswith(t, "+") } }
             to_remove == { Tail(item) :
                            item \in { t \in request_as_set : startswith(t, "-") } }
             union == to_add \cup to_remove
         IN  IF Cardinality(union) # Cardinality(request_as_set)
             THEN [raised |-> TRUE, to_add |-> {}, to_remove |-> {},
                   bad_entries |->
                       { item \in request_as_set : ~startswith(item, "+") }]
             ELSE [raised |-> FALSE, to_add |-> to_add, to_remove |-> to_remove,
                   bad_entries |-> {}]

\* Variant: only a missing prefix is an error.
parse_auth_request_prefix_only(request) ==
    IF Len(request) = 0
    THEN [raised |-> FALSE, to_add |-> {}, to_remove |-> {}, bad_entries |-> {}]
    ELSE LET request_as_set == Range(split(request, ","))
             to_add == { Tail(item) :
                         item \in { t \in request_as_set : startswith(t, "+") } }
             to_remove == { Tail(item) :
                            item \in { t \in request_as_set : startswith(t, "-") } }
             bad_entries ==
                 { item \in request_as_set :
                     ~startswith(item, "+") /\ ~startswith(item, "-") }
         IN  IF bad_entries # {}
             THEN [raised |-> TRUE, to_add |-> {}, to_remove |-> {},
                   bad_entries |-> bad_entries]
             ELSE [raised |-> FALSE, to_add |-> to_add, to_remove |-> to_remove,
                   bad_entries |-> {}]

\* Variant: the two sets are returned without the length check.
parse_auth_request_unchecked(request) ==
    IF Len(request) = 0
    THEN [raised |-> FALSE, to_add |-> {}, to_remove |-> {}, bad_entries |-> {}]
    ELSE LET request_as_set == Range(split(request, ","))
             to_add == { Tail(item) :
                         item \in { t \in request_as_set : startswith(t, "+") } }
             to_remove == { Tail(item) :
                            item \in { t \in request_as_set : startswith(t, "-") } }
         IN  [raised |-> FALSE, to_add |-> to_add, to_remove |-> to_remove,
              bad_entries |-> {}]

\* Returns [raised, to_add, to_remove, bad_entries]: the two sets of the
\* return value, or raised with the entries the RuntimeError lists as invalid.
parse_auth_request(request) ==
    IF Len(request) = 0
    THEN [raised |-> FALSE, to_add |-> {}, to_remove |-> {}, bad_entries |-> {}]
    ELSE LET request_as_set == Range(split(request, ","))
             to_add == { Tail(item) :
                         item \in { t \in request_as_set : startswith(t, "+") } }
             to_remove == { Tail(item) :
                            item \in { t \in request_as_set : startswith(t, "-") } }
             union == to_add \cup to_remove
         IN  IF Cardinality(union) # Cardinality(request_as_set)
             THEN [raised |-> TRUE, to_add |-> {}, to_remove |-> {},
                   bad_entries |->
                       { item \in request_as_set :
                           ~startswith(item, "+") /\ ~startswith(item, "-") }]
             ELSE [raised |-> FALSE, to_add |-> to_add, to_remove |-> to_remove,
                   bad_entries |-> {}]

(***************************************************************************)
(* AuthorizationModel                                                      *)
(***************************************************************************)
EmptyAuthorization == [authorized_users |-> {}, non_authorized_cscs |-> {}]

\* Placeholder for the value of a call that returns None or raises.
None == [authorized_users |-> {}, non_authorized_cscs |-> {}]

\* self.authorization.get(component, dict(authorized_users=set(), ...)):
\* the value of the stored entry, or of a fresh empty entry.
get_component_authorization(auth, component) ==
    IF component \in DOMAIN auth THEN auth[component] ELSE EmptyAuthorization

\* Variant of get_authorization that forgets to subtract the users to remove.
get_authorization_keeps_removed(auth, component, authorized_users, non_authorized_cscs) ==
    LET component_authorization == get_component_authorization(auth, component)
        users == parse_auth_request(authorized_users)
        cscs == parse_auth_request(non_authorized_cscs)
        result ==
            [authorized_users |->
                 component_authorization.authorized_users \cup users.to_add,
             non_authorized_cscs |->
                 (component_authorization.non_authorized_cscs \cup cscs.to_add)
                     \ cscs.to_remove]
    IN  IF users.raised \/ cscs.raised
        THEN [raised |-> TRUE, ret |-> None, authorization |-> auth]
        ELSE [raised |-> FALSE, ret |-> result,
              authorization |->
                  IF component \in DOMAIN auth
                  THEN [auth EXCEPT ![component] = result]
                  ELSE auth]

\* Variant of get_authorization that assigns the users before it parses the
\* CSCs expression, so that an invalid CSCs expression raises after the
\* stored entry has been written.
get_authorization_parses_late(auth, component, authorized_users, non_authorized_cscs) ==
    LET component_authorization == get_component_authorization(auth, component)
        users == parse_auth_request(authorized_users)
        cscs == parse_auth_request(non_authorized_cscs)
        new_users == (component_authorization.authorized_users \cup users.to_add)
                         \ users.to_remove
        result ==
            [authorized_users |-> new_users,
             non_authorized_cscs |->
                 (component_authorization.non_authorized_cscs \cup cscs.to_add)
                     \ cscs.to_remove]
    IN  IF users.raised
        THEN [raised |-> TRUE, ret |-> None, authorization |-> auth]
        ELSE IF cscs.raised
        THEN [raised |-> TRUE, ret |-> None,
              authorization |->
                  IF component \in DOMAIN auth
                  THEN [auth EXCEPT ![component].authorized_users = new_users]
                  ELSE auth]
        ELSE [raised |-> FALSE, ret |-> result,
              authorization |->
                  IF component \in DOMAIN auth
                  THEN [auth EXCEPT ![component] = result]
                  ELSE auth]

\* get_authorization: both expressions are parsed first (either may raise),
\* then the two keys of component_authorization are assigned.  When the
\* component is a key of the dict, component_authorization IS the stored
\* entry (dict.get returns the object, not a copy), so the two assignments
\* write the stored entry; when it is absent they write the fresh default.
\* Variant of get_authorization whose read is dict.setdefault: the result
\* is written into the store for an absent component too.
get_authorization_setdefault(auth, component, authorized_users, non_authorized_cscs) ==
    LET component_authorization == get_component_authorization(auth, component)
        users == parse_auth_request(authorized_users)
        cscs == parse_auth_request(non_authorized_cscs)
        result ==
            [authorized_users |->
                 (component_authorization.authorized_users \cup users.to_add)
                     \ users.to_remove,
             non_authorized_cscs |->
                 (component_authorization.non_authorized_cscs \cup cscs.to_add)
                     \ cscs.to_remove]
    IN  IF users.raised \/ cscs.raised
        THEN [raised |-> TRUE, ret |-> None,
              authorization |->
                  [c \in DOMAIN auth \cup {component} |->
                       IF c \in DOMAIN auth THEN auth[c] ELSE EmptyAuthorization]]
        ELSE [raised |-> FALSE, ret |-> result,
              authorization |->
                  [c \in DOMAIN auth \cup {component} |->
                       IF c = component THEN result ELSE auth[c]]]

get_authorization(auth, component, authorized_users, non_authorized_cscs) ==
    LET component_authorization == get_component_authorization(auth, component)
        users == parse_auth_request(authorized_users)
        cscs == parse_auth_request(non_authorized_cscs)
        result ==
            [authorized_users |->
                 (component_authorization.authorized_users \cup users.to_add)
                     \ users.to_remove,
             non_authorized_cscs |->
                 (component_authorization.non_authorized_cscs \cup cscs.to_add)
                     \ cscs.to_remove]
    IN  IF users.raised \/ cscs.raised
        THEN [raised |-> TRUE, ret |-> None, authorization |-> auth]
        ELSE [raised |-> FALSE, ret |-> result,
              authorization |->
                  IF component \in DOMAIN auth
                  THEN [auth EXCEPT ![component] = result]
                  ELSE auth]

_handle_enter_component_in_auth_list(auth, component) ==
    IF component \notin DOMAIN auth
    THEN [c \in DOMAIN auth \cup {component} |->
              IF c = component THEN EmptyAuthorization ELSE auth[c]]
    ELSE auth

\* Variant that removes every entry whose two sets are empty.
_handle_exit_component_in_auth_list_prunes_all(auth, component) ==
    [c \in { d \in DOMAIN auth :
                \/ Cardinality(auth[d].authorized_users) # 0
                \/ Cardinality(auth[d].non_authorized_cscs) # 0 } |-> auth[c]]

_handle_exit_component_in_auth_list(auth, component) ==
    IF /\ component \in DOMAIN auth
       /\ Cardinality(auth[component].authorized_users) = 0
       /\ Cardinality(auth[component].non_authorized_cscs) = 0
    THEN [c \in DOMAIN auth \ {component} |-> auth[c]]
    ELSE auth

\* Variant of set_authorization that adds the given values to the stored ones.
set_authorization_merges(auth, component, authorized_users, non_authorized_cscs) ==
    LET entered == _handle_enter_component_in_auth_list(auth, component)
        written == [entered EXCEPT
                      ![component] =
                          [authorized_users |->
                               entered[component].authorized_users
                                   \cup authorized_users,
                           non_authorized_cscs |->
                               entered[component].non_authorized_cscs
                                   \cup non_authorized_cscs]]
    IN  _handle_exit_component_in_auth_list(written, component)

\* Variant of set_authorization that does not prune the entry it wrote.
set_authorization_keeps_entry(auth, component, authorized_users, non_authorized_cscs) ==
    LET entered == _handle_enter_component_in_auth_list(auth, component)
    IN  [entered EXCEPT
           ![component] =
               [authorized_users |-> authorized_users,
                non_authorized_cscs |-> non_authorized_cscs]]

set_authorization(auth, component, authorized_users, non_authorized_cscs) ==
    LET entered == _handle_enter_component_in_auth_list(auth, component)
        written == [entered EXCEPT
                      ![component] =
                          [authorized_users |-> authorized_users,
                           non_authorized_cscs |-> non_authorized_cscs]]
    IN  _handle_exit_component_in_auth_list(written, component)

(***************************************************************************)
(* State machine.                                                          *)
(*   authorization        AuthorizationModel.authorization                 *)
(*   auto_accept_request  AuthorizationModel._auto_accept_request          *)
(*   gen                  the async generator made by process_request:     *)
(*                        pc is "none" (no generator yet), "suspended" (at *)
(*                        the yield), "finished" (loop exhausted) or       *)
(*                        "raised"; targets is the list being iterated and *)
(*                        index the number of targets already taken        *)
(*   yielded              the set_auth_list dicts yielded by the generator *)
(*   call                 the last call made: its name, whether it raised, *)
(*                        and its return value                             *)
(*   auth_request         the argument of parse_auth_request               *)
(*   summary_state        CSC.summary_state                                *)
(*   callback             for each remote, whether evt_authList.callback   *)
(*                        is set (TRUE) or None (FALSE)                    *)
(*   evt_authList         for each remote, the most recent authList sample *)
(*                        it has received (NoSample before the first)      *)
(*   enabling             the remotes end_enable has still to visit, <<>>  *)
(*                        when no enable is in progress                    *)
(*   command              the state of the last requestAuthorization       *)
(*                        command and the error it failed with             *)
(*   pushes               the setAuthList commands started for it, in      *)
(*                        order, each with its status                      *)
(*   echoes               the authList events published in answer to a     *)
(*                        setAuthList and not yet received by the CSC      *)
(***************************************************************************)
\* No authList sample received yet (aget has nothing to return).
NoSample ==
    [hasID |-> FALSE, ID |-> 0,
     authorizedUsers |-> <<"?">>, nonAuthorizedCSCs |-> <<"?">>]

\* No requestAuthorization command received yet.
NoCommand == [state |-> "none", error |-> ""]

NoData == [cscsToChange |-> <<>>, authorizedUsers |-> <<>>,
           nonAuthorizedCSCs |-> <<>>]

NoGenerator == [pc |-> "none", data |-> NoData, targets |-> <<>>, index |-> 0,
                error |-> ""]

Init ==
    /\ authorization = << >>
    /\ auto_accept_request = TRUE
    /\ gen = NoGenerator
    /\ yielded = <<>>
    /\ call = [op |-> "__init__", raised |-> FALSE, ret |-> None]
    /\ auth_request = <<>>
    /\ summary_state = "STANDBY"
    /\ callback = [r \in Remotes |-> FALSE]
    /\ evt_authList = [r \in Remotes |-> NoSample]
    /\ enabling = <<>>
    /\ command = NoCommand
    /\ pushes = <<>>
    /\ echoes = <<>>

SetAuthorization(component, authorized_users, non_authorized_cscs) ==
    /\ authorization' = set_authorization(authorization, component,
                                          authorized_users, non_authorized_cscs)
    /\ call' = [op |-> "set_authorization", raised |-> FALSE, ret |-> None]
    /\ UNCHANGED <<auto_accept_request, gen, yielded, auth_request, cmd_vars, csc_vars>>

GetAuthorization(component, authorized_users, non_authorized_cscs) ==
    LET r == get_authorization(authorization, component,
                               authorized_users, non_authorized_cscs)
    IN  /\ authorization' = r.authorization
        /\ call' = [op |-> "get_authorization", raised |-> r.raised,
                    ret |-> r.ret]
        /\ UNCHANGED <<auto_accept_request, gen, yielded, auth_request, cmd_vars, csc_vars>>

\* Variant that reads with dict.setdefault.
GetComponentAuthorization_setdefault(component) ==
    /\ authorization' =
           IF component \in DOMAIN authorization
           THEN authorization
           ELSE authorization @@ (component :> EmptyAuthorization)
    /\ call' = [op |-> "get_component_authorization", raised |-> FALSE,
                ret |-> get_component_authorization(authorization, component),
                component |-> component]
    /\ UNCHANGED <<auto_accept_request, gen, yielded, auth_request, cmd_vars, csc_vars>>

\* get_component_authorization(component); the call records its argument.
GetComponentAuthorization(component) ==
    /\ call' = [op |-> "get_component_authorization", raised |-> FALSE,
                ret |-> get_component_authorization(authorization, component),
                component |-> component]
    /\ UNCHANGED <<authorization, auto_accept_request, gen, yielded,
                   auth_request, cmd_vars, csc_vars>>

\* Variant that always switches to Automatic.
SetAuthorizationMode_always_auto(auto) ==
    /\ auto_accept_request' = TRUE
    /\ call' = [op |-> "set_authorization_mode", raised |-> FALSE,
                ret |-> None, auto |-> auto]
    /\ UNCHANGED <<authorization, gen, yielded, auth_request, cmd_vars, csc_vars>>

\* set_authorization_mode(auto); the call records its argument.
SetAuthorizationMode(auto) ==
    /\ auto_accept_request' = auto
    /\ call' = [op |-> "set_authorization_mode", raised |-> FALSE,
                ret |-> None, auto |-> auto]
    /\ UNCHANGED <<authorization, gen, yielded, auth_request, cmd_vars, csc_vars>>

\* Variant of LoopStep whose loop ends one target early.
LoopStep_stops_early(g, out, op) ==
    IF g.index + 1 >= Len(g.targets)
    THEN /\ gen' = [g EXCEPT !.pc = "finished"]
         /\ yielded' = out
         /\ call' = [op |-> op, raised |-> FALSE, ret |-> None]
         /\ UNCHANGED authorization
    ELSE LET component == g.targets[g.index + 1]
             r == get_authorization(authorization, component,
                                    g.data.authorizedUsers,
                                    g.data.nonAuthorizedCSCs)
         IN  IF r.raised
             THEN /\ gen' = [g EXCEPT !.pc = "raised", !.error = "RuntimeError"]
                  /\ yielded' = out
                  /\ call' = [op |-> op, raised |-> TRUE, ret |-> None]
                  /\ authorization' = r.authorization
             ELSE \E authorizedUsers \in join_set(r.ret.authorized_users),
                     nonAuthorizedCSCs \in join_set(r.ret.non_authorized_cscs) :
                      /\ gen' = [g EXCEPT !.pc = "suspended",
                                          !.index = g.index + 1]
                      /\ yielded' =
                             Append(out,
                                    [component |-> component,
                                     auth_list |->
                                         [authorizedUsers |-> authorizedUsers,
                                          nonAuthorizedCSCs |-> nonAuthorizedCSCs]])
                      /\ call' = [op |-> op, raised |-> FALSE, ret |-> None]
                      /\ authorization' = r.authorization

\* Variant of LoopStep that computes every result from the state of the first
\* target of the request.
LoopStep_first_target(g, out, op) ==
    IF g.index >= Len(g.targets)
    THEN /\ gen' = [g EXCEPT !.pc = "finished"]
         /\ yielded' = out
         /\ call' = [op |-> op, raised |-> FALSE, ret |-> None]
         /\ UNCHANGED authorization
    ELSE LET component == g.targets[g.index + 1]
             r == get_authorization(authorization, g.targets[1],
                                    g.data.authorizedUsers,
                                    g.data.nonAuthorizedCSCs)
         IN  IF r.raised
             THEN /\ gen' = [g EXCEPT !.pc = "raised", !.error = "RuntimeError"]
                  /\ yielded' = out
                  /\ call' = [op |-> op, raised |-> TRUE, ret |-> None]
                  /\ authorization' = r.authorization
             ELSE \E authorizedUsers \in join_set(r.ret.authorized_users),
                     nonAuthorizedCSCs \in join_set(r.ret.non_authorized_cscs) :
                      /\ gen' = [g EXCEPT !.pc = "suspended",
                                          !.index = g.index + 1]
                      /\ yielded' =
                             Append(out,
                                    [component |-> component,
                                     auth_list |->
                                         [authorizedUsers |-> authorizedUsers,
                                          nonAuthorizedCSCs |-> nonAuthorizedCSCs]])
                      /\ call' = [op |-> op, raised |-> FALSE, ret |-> None]
                      /\ authorization' = r.authorization

\* Variant of LoopStep that gives a target it has already computed in this
\* request the result it gave before.
LoopStep_cached(g, out, op) ==
    IF g.index >= Len(g.targets)
    THEN /\ gen' = [g EXCEPT !.pc = "finished"]
         /\ yielded' = out
         /\ call' = [op |-> op, raised |-> FALSE, ret |-> None]
         /\ UNCHANGED authorization
    ELSE LET component == g.targets[g.index + 1]
             r == get_authorization(authorization, component,
                                    g.data.authorizedUsers,
                                    g.data.nonAuthorizedCSCs)
         IN  IF r.raised
             THEN /\ gen' = [g EXCEPT !.pc = "raised", !.error = "RuntimeError"]
                  /\ yielded' = out
                  /\ call' = [op |-> op, raised |-> TRUE, ret |-> None]
                  /\ authorization' = r.authorization
             ELSE IF \E k \in 1..Len(out) : out[k].component = component
             THEN /\ gen' = [g EXCEPT !.pc = "suspended",
                                      !.index = g.index + 1]
                  /\ yielded' =
                         Append(out,
                                out[CHOOSE k \in 1..Len(out) :
                                        out[k].component = component])
                  /\ call' = [op |-> op, raised |-> FALSE, ret |-> None]
                  /\ UNCHANGED authorization
             ELSE \E authorizedUsers \in join_set(r.ret.authorized_users),
                     nonAuthorizedCSCs \in join_set(r.ret.non_authorized_cscs) :
                      /\ gen' = [g EXCEPT !.pc = "suspended",
                                          !.index = g.index + 1]
                      /\ yielded' =
                             Append(out,
                                    [component |-> component,
                                     auth_list |->
                                         [authorizedUsers |-> authorizedUsers,
                                          nonAuthorizedCSCs |-> nonAuthorizedCSCs]])
                      /\ call' = [op |-> op, raised |-> FALSE, ret |-> None]
                      /\ authorization' = r.authorization

\* One pass of the for loop of process_request, from the loop head to the
\* next yield, to the end of the loop, or to the exception get_authorization
\* raises.  g is the generator with its target list and index at the loop
\* head, out the results yielded so far.
LoopStep(g, out, op) ==
    IF g.index >= Len(g.targets)
    THEN /\ gen' = [g EXCEPT !.pc = "finished"]
         /\ yielded' = out
         /\ call' = [op |-> op, raised |-> FALSE, ret |-> None]
         /\ UNCHANGED authorization
    ELSE LET component == g.targets[g.index + 1]
             r == get_authorization(authorization, component,
                                    g.data.authorizedUsers,
                                    g.data.nonAuthorizedCSCs)
         IN  IF r.raised
             THEN /\ gen' = [g EXCEPT !.pc = "raised", !.error = "RuntimeError"]
                  /\ yielded' = out
                  /\ call' = [op |-> op, raised |-> TRUE, ret |-> None]
                  /\ authorization' = r.authorization
             ELSE \E authorizedUsers \in join_set(r.ret.authorized_users),
                     nonAuthorizedCSCs \in join_set(r.ret.non_authorized_cscs) :
                      /\ gen' = [g EXCEPT !.pc = "suspended",
                                          !.index = g.index + 1]
                      /\ yielded' =
                             Append(out,
                                    [component |-> component,
                                     auth_list |->
                                         [authorizedUsers |-> authorizedUsers,
                                          nonAuthorizedCSCs |-> nonAuthorizedCSCs]])
                      /\ call' = [op |-> op, raised |-> FALSE, ret |-> None]
                      /\ authorization' = r.authorization

\* Variant of ProcessRequest without the mode check.
ProcessRequest_unchecked(data) ==
    /\ UNCHANGED <<auto_accept_request, auth_request, cmd_vars, csc_vars>>
    /\ LoopStep([pc |-> "none", data |-> data,
                 targets |-> split(data.cscsToChange, ","),
                 index |-> 0, error |-> ""],
                <<>>, "process_request")

\* process_request(data) up to its first suspension: the mode check, the
\* split of cscsToChange and the first pass of the loop.  The caller
\* (async for) asks for the first element as soon as it has the generator.
\* It may be called while an earlier generator is suspended: the new
\* generator takes its place.
ProcessRequest(data) ==
    /\ UNCHANGED <<auto_accept_request, auth_request, cmd_vars, csc_vars>>
    /\ IF ~auto_accept_request
       THEN /\ gen' = [pc |-> "raised", data |-> data, targets |-> <<>>,
                       index |-> 0, error |-> "NotImplementedError"]
            /\ yielded' = <<>>
            /\ call' = [op |-> "process_request", raised |-> TRUE, ret |-> None]
            /\ UNCHANGED authorization
       ELSE LoopStep([pc |-> "none", data |-> data,
                      targets |-> split(data.cscsToChange, ","),
                      index |-> 0, error |-> ""],
                     <<>>, "process_request")

\* Variant in which the mode is checked again at every resumption.
Anext_rechecks_mode ==
    /\ gen.pc = "suspended"
    /\ UNCHANGED <<auto_accept_request, auth_request, cmd_vars, csc_vars>>
    /\ IF ~auto_accept_request
       THEN /\ gen' = [gen EXCEPT !.pc = "raised",
                                  !.error = "NotImplementedError"]
            /\ call' = [op |-> "__anext__", raised |-> TRUE, ret |-> None]
            /\ UNCHANGED <<authorization, yielded>>
       ELSE LoopStep(gen, yielded, "__anext__")

\* The consumer asks the suspended generator for its next element.
Anext ==
    /\ gen.pc = "suspended"
    /\ UNCHANGED <<auto_accept_request, auth_request, cmd_vars, csc_vars>>
    /\ LoopStep(gen, yielded, "__anext__")

Requests ==
    { [cscsToChange |-> join(",", ts), authorizedUsers |-> e[1],
       nonAuthorizedCSCs |-> e[2]] :
        ts \in TargetLists, e \in RequestExprs }

\* Direct calls on an AuthorizationModel.
Next ==
    \/ \E c \in Components, u \in SUBSET Users, p \in SUBSET CSCs :
           SetAuthorization(c, u, p)
    \/ \E c \in Components, u \in UserExprs, p \in CSCExprs :
           GetAuthorization(c, u, p)
    \/ \E auto \in BOOLEAN : SetAuthorizationMode(auto)
    \/ \E c \in Components : GetComponentAuthorization(c)

Spec == Init /\ [][Next]_vars

(***************************************************************************)
(* CSC: monitoring of the authList events of the handled components.       *)
(***************************************************************************)
\* The authList samples the remote of a component can receive: those of an
\* indexed component carry the attribute <component>ID, the others do not.
Samples(component) ==
    { [hasID |-> component \in Indexed, ID |-> i,
       authorizedUsers |-> l[1], nonAuthorizedCSCs |-> l[2]] :
        i \in (IF component \in Indexed THEN 1..MaxIndex ELSE {0}),
        l \in AuthLists }

\* Variant that never appends the index to the name.
_handle_auth_list_for_component_no_index(auth, data, component) ==
    set_authorization(auth, component,
                      Range(split(data.authorizedUsers, ",")) \ { <<>> },
                      Range(split(data.nonAuthorizedCSCs, ",")) \ { <<>> })

\* The store after _handle_auth_list_for_component(data, component).
_handle_auth_list_for_component(auth, data, component) ==
    LET component_name ==
            IF data.hasID
            THEN component \o <<":">> \o str(data.ID)
            ELSE component
    IN  set_authorization(auth, component_name,
                          Range(split(data.authorizedUsers, ",")) \ { <<>> },
                          Range(split(data.nonAuthorizedCSCs, ",")) \ { <<>> })

\* The remote of a component receives an authList sample: it becomes the
\* sample aget returns, and the callback, if one is set, is called with it.
AuthList(component, data) ==
    /\ evt_authList' = [evt_authList EXCEPT ![component] = data]
    /\ authorization' =
           IF callback[component]
           THEN _handle_auth_list_for_component(authorization, data, component)
           ELSE authorization
    /\ call' = [op |-> "authList", raised |-> FALSE, ret |-> None]
    /\ UNCHANGED <<auto_accept_request, gen, yielded, auth_request, cmd_vars,
                   summary_state, callback, enabling>>

\* The start command: configure sets the mode from the configuration.
Start(auto_authorization) ==
    /\ summary_state = "STANDBY"
    /\ summary_state' = "DISABLED"
    /\ auto_accept_request' = auto_authorization
    /\ call' = [op |-> "start", raised |-> FALSE, ret |-> None]
    /\ UNCHANGED <<authorization, gen, yielded, auth_request, cmd_vars,
                   callback, evt_authList, enabling>>

\* The enable command up to the first pass of the loop of
\* _set_auth_list_callbacks: the state is ENABLED when end_enable runs.  The
\* loop visits the remotes in the order of the dict, that of the iteration
\* of the set components_to_handle.  The passes of an end_enable that has not
\* returned (a disable came while it awaited an aget) go on, in any order
\* with respect to the new ones.
Enable ==
    /\ summary_state = "DISABLED"
    /\ summary_state' = "ENABLED"
    /\ \E order \in Orders(Remotes) :
           enabling' \in Interleavings(enabling, order)
    /\ call' = [op |-> "enable", raised |-> FALSE, ret |-> None]
    /\ UNCHANGED <<authorization, auto_accept_request, gen, yielded,
                   auth_request, cmd_vars, callback, evt_authList>>

\* The operator of the CSC sends an enable command once the previous one has
\* returned (a disable may have come before that).
SendEnable ==
    /\ enabling = <<>>
    /\ Enable

\* One pass of the loop of _set_auth_list_callbacks: aget returns the most
\* recent sample of the component, which is handled, or times out when there
\* is none; the callback is set either way.
SetAuthListCallback ==
    /\ enabling # <<>>
    /\ LET component == Head(enabling)
       IN  /\ authorization' =
                  IF evt_authList[component] # NoSample
                  THEN _handle_auth_list_for_component(
                           authorization, evt_authList[component], component)
                  ELSE authorization
           /\ callback' = [callback EXCEPT ![component] = TRUE]
    /\ enabling' = Tail(enabling)
    /\ call' = [op |-> "_set_auth_list_callbacks", raised |-> FALSE,
                ret |-> None]
    /\ UNCHANGED <<auto_accept_request, gen, yielded, auth_request, cmd_vars,
                   summary_state, evt_authList>>

\* The disable command: end_disable unsets every callback.  Neither a pass
\* of _set_auth_list_callbacks still to run nor a request in progress is
\* cancelled.
Disable ==
    /\ summary_state = "ENABLED"
    /\ summary_state' = "DISABLED"
    /\ callback' = [r \in Remotes |-> FALSE]
    /\ call' = [op |-> "disable", raised |-> FALSE, ret |-> None]
    /\ UNCHANGED <<authorization, auto_accept_request, gen, yielded,
                   auth_request, cmd_vars, evt_authList, enabling>>

\* The standby command.
Standby ==
    /\ summary_state = "DISABLED"
    /\ summary_state' = "STANDBY"
    /\ call' = [op |-> "standby", raised |-> FALSE, ret |-> None]
    /\ UNCHANGED <<authorization, auto_accept_request, gen, yielded,
                   auth_request, cmd_vars, callback, evt_authList, enabling>>

\* The CSC taken through its states while the handled components publish
\* authList events.
NextCSC ==
    \/ \E component \in Remotes :
           \E data \in Samples(component) : AuthList(component, data)
    \/ \E auto_authorization \in BOOLEAN : Start(auto_authorization)
    \/ SendEnable
    \/ SetAuthListCallback
    \/ Disable
    \/ Standby

SpecCSC == Init /\ [][NextCSC]_vars

(***************************************************************************)
(* CSC: the requestAuthorization command.                                  *)
(***************************************************************************)
\* The requestAuthorization commands sent to the CSC: the valid expressions
\* of RequestExprs for every list of targets.
CommandRequests ==
    { [cscsToChange |-> join(",", ts), authorizedUsers |-> e[1],
       nonAuthorizedCSCs |-> e[2]] :
        ts \in UNION { [1..n -> CommandComponents] : n \in 1..MaxTargets },
        e \in { f \in RequestExprs :
                   /\ ~parse_auth_request(f[1]).raised
                   /\ ~parse_auth_request(f[2]).raised } }

\* Variant that sends the two lists in each other's place.
SetAuthListCommand_swapped(set_auth_list) ==
    LET target == name_to_name_index(set_auth_list.component)
    IN  [component |-> target.name,
         hasID |-> target.index > 0,
         ID |-> target.index,
         authorizedUsers |-> set_auth_list.auth_list.nonAuthorizedCSCs,
         nonAuthorizedCSCs |-> set_auth_list.auth_list.authorizedUsers,
         status |-> "sent"]

\* The setAuthList command CSC.process_request sends for one result of the
\* generator: to the remote of the component name, with <component>ID when
\* the index is positive.
SetAuthListCommand(set_auth_list) ==
    LET target == name_to_name_index(set_auth_list.component)
    IN  [component |-> target.name,
         hasID |-> target.index > 0,
         ID |-> target.index,
         authorizedUsers |-> set_auth_list.auth_list.authorizedUsers,
         nonAuthorizedCSCs |-> set_auth_list.auth_list.nonAuthorizedCSCs,
         status |-> "sent"]

\* The body of the async for of CSC.process_request for the element the
\* generator has just produced (gen', yielded'): nothing is sent when the
\* generator has finished or raised, or when the target has no remote
\* (KeyError); otherwise a setAuthList is sent and awaited.  sent is the
\* sequence of the commands sent before.  The task ends in the first three
\* cases; the command does not end with it.
ProcessRequestBody(sent) ==
    /\ pushes' =
           IF gen'.pc \in {"finished", "raised"}
           THEN sent
           ELSE LET cmd == SetAuthListCommand(yielded'[Len(yielded')])
                IN  IF cmd.component \notin Remotes
                    THEN sent
                    ELSE Append(sent, cmd)
    /\ UNCHANGED command

\* The task of CSC.process_request has ended and do_requestAuthorization has
\* not: the generator has finished or raised, the last result has no remote
\* to be sent to, or the awaited setAuthList has failed.
TaskEnded ==
    /\ command.state = "in_progress"
    /\ \/ gen.pc \in {"finished", "raised"}
       \/ gen.pc = "suspended" /\ Len(pushes) < Len(yielded)
       \/ pushes # <<>> /\ pushes[Len(pushes)].status = "failed"

\* The exception with which the task has ended, "" when it has returned.
TaskError ==
    IF gen.pc = "finished" THEN ""
    ELSE IF gen.pc = "raised" THEN gen.error
    ELSE IF Len(pushes) < Len(yielded) THEN "KeyError"
    ELSE "AckError"

\* Variant without assert_enabled.
RequestAuthorization_unchecked(data) ==
    /\ command' = [state |-> "in_progress", error |-> ""]
    /\ gen' = [NoGenerator EXCEPT !.data = data]
    /\ call' = [op |-> "requestAuthorization", raised |-> FALSE, ret |-> None]
    /\ yielded' = <<>>
    /\ pushes' = <<>>
    /\ UNCHANGED <<authorization, auto_accept_request, auth_request, csc_vars,
                   echoes>>

\* do_requestAuthorization(data) up to its await: refused unless the CSC is
\* ENABLED, with no generator made and no setAuthList sent; otherwise the
\* command is acknowledged as in progress and asyncio.wait_for makes the task
\* of CSC.process_request(data), which has not started when control returns
\* to the event loop.  The summary state is not looked at again.
RequestAuthorization(data) ==
    /\ IF summary_state # "ENABLED"
       THEN /\ command' = [state |-> "failed", error |-> "ExpectedError"]
            /\ gen' = NoGenerator
            /\ call' = [op |-> "requestAuthorization", raised |-> TRUE,
                        ret |-> None]
       ELSE /\ command' = [state |-> "in_progress", error |-> ""]
            /\ gen' = [NoGenerator EXCEPT !.data = data]
            /\ call' = [op |-> "requestAuthorization", raised |-> FALSE,
                        ret |-> None]
    /\ yielded' = <<>>
    /\ pushes' = <<>>
    /\ UNCHANGED <<authorization, auto_accept_request, auth_request, csc_vars,
                   echoes>>

\* The sender of the commands sends requestAuthorization commands until the
\* CSC accepts one.
SendRequestAuthorization(data) ==
    /\ gen = NoGenerator
    /\ command.state # "in_progress"
    /\ echoes = <<>>
    /\ RequestAuthorization(data)

\* The task of CSC.process_request(data) starts: the generator is made and
\* runs up to its first result (or fails in Manual mode), and the body of the
\* async for runs up to its first await of a setAuthList.
ProcessRequestStart ==
    /\ command.state = "in_progress"
    /\ gen.pc = "none"
    /\ IF ~auto_accept_request
       THEN /\ gen' = [pc |-> "raised", data |-> gen.data,
                       targets |-> <<>>, index |-> 0,
                       error |-> "NotImplementedError"]
            /\ yielded' = <<>>
            /\ call' = [op |-> "process_request", raised |-> TRUE,
                        ret |-> None]
            /\ UNCHANGED authorization
       ELSE \E g \in { [pc |-> "none", data |-> gen.data,
                         targets |-> split(gen.data.cscsToChange, ","),
                         index |-> 0, error |-> ""] } :
                LoopStep(g, <<>>, "process_request")
    /\ ProcessRequestBody(<<>>)
    /\ UNCHANGED <<auto_accept_request, auth_request, csc_vars, echoes>>

\* The target component executes the setAuthList it received: it publishes
\* its new lists as an authList event and acknowledges the command.
SetAuthList ==
    /\ pushes # <<>>
    /\ pushes[Len(pushes)].status = "sent"
    /\ LET cmd == pushes[Len(pushes)]
       IN  /\ pushes' = [pushes EXCEPT ![Len(pushes)].status = "done"]
           /\ echoes' = Append(echoes,
                               [component |-> cmd.component,
                                hasID |-> cmd.component \in Indexed,
                                ID |-> cmd.ID,
                                authorizedUsers |-> cmd.authorizedUsers,
                                nonAuthorizedCSCs |-> cmd.nonAuthorizedCSCs])
    /\ call' = [op |-> "setAuthList", raised |-> FALSE, ret |-> None]
    /\ UNCHANGED <<authorization, auto_accept_request, gen, yielded,
                   auth_request, csc_vars, command>>

\* Variant in which the loop goes on without waiting for the acknowledgement.
SetAuthListAck_not_awaited ==
    /\ command.state = "in_progress"
    /\ pushes # <<>>
    /\ pushes[Len(pushes)].status \in {"sent", "done"}
    /\ LoopStep(gen, yielded, "__anext__")
    /\ ProcessRequestBody(pushes)
    /\ UNCHANGED <<auto_accept_request, auth_request, csc_vars, echoes>>

\* The acknowledgement of the awaited setAuthList arrives: set_start returns
\* and the async for asks the generator for its next element.
SetAuthListAck ==
    /\ command.state = "in_progress"
    /\ pushes # <<>>
    /\ pushes[Len(pushes)].status = "done"
    /\ LoopStep(gen, yielded, "__anext__")
    /\ ProcessRequestBody([pushes EXCEPT ![Len(pushes)].status = "acked"])
    /\ UNCHANGED <<auto_accept_request, auth_request, csc_vars, echoes>>

\* Variant that answers a failure by sending the first target a setAuthList
\* with empty lists.
SetAuthListFails_rolls_back ==
    /\ command.state = "in_progress"
    /\ pushes # <<>>
    /\ pushes[Len(pushes)].status = "sent"
    /\ pushes' = Append([pushes EXCEPT ![Len(pushes)].status = "failed"],
                        [pushes[1] EXCEPT !.status = "sent",
                                          !.authorizedUsers = <<>>,
                                          !.nonAuthorizedCSCs = <<>>])
    /\ call' = [op |-> "setAuthList", raised |-> TRUE, ret |-> None]
    /\ UNCHANGED <<authorization, auto_accept_request, gen, yielded,
                   auth_request, csc_vars, command, echoes>>

\* The awaited setAuthList fails (the component rejects it or does not
\* answer within timeout_short): set_start raises and the task ends with its
\* exception.
SetAuthListFails ==
    /\ command.state = "in_progress"
    /\ pushes # <<>>
    /\ pushes[Len(pushes)].status = "sent"
    /\ pushes' = [pushes EXCEPT ![Len(pushes)].status = "failed"]
    /\ call' = [op |-> "setAuthList", raised |-> TRUE, ret |-> None]
    /\ UNCHANGED <<authorization, auto_accept_request, gen, yielded,
                   auth_request, csc_vars, command, echoes>>

\* asyncio.wait_for returns the result of the task that has ended, or raises
\* its exception: do_requestAuthorization ends and the command is
\* acknowledged as done or as failed.
RequestAuthorizationEnds ==
    /\ TaskEnded
    /\ command' = IF TaskError = ""
                  THEN [state |-> "done", error |-> ""]
                  ELSE [state |-> "failed", error |-> TaskError]
    /\ call' = [op |-> "requestAuthorization", raised |-> TaskError # "",
                ret |-> None]
    /\ UNCHANGED <<authorization, auto_accept_request, gen, yielded,
                   auth_request, csc_vars, pushes, echoes>>

\* asyncio.wait_for gives up after timeout_request_authorization: the task,
\* which has not ended, is cancelled at the setAuthList it awaits, or before
\* its first step when the time limit is not positive (the schema gives it no
\* minimum).
RequestTimeout ==
    /\ command.state = "in_progress"
    /\ ~TaskEnded
    /\ command' = [state |-> "failed", error |-> "TimeoutError"]
    /\ call' = [op |-> "requestAuthorization", raised |-> TRUE, ret |-> None]
    /\ UNCHANGED <<authorization, auto_accept_request, gen, yielded,
                   auth_request, csc_vars, pushes, echoes>>

\* The remote receives the oldest authList event published in answer to a
\* setAuthList.
EchoAuthList ==
    /\ echoes # <<>>
    /\ LET component == Head(echoes).component
           data == [hasID |-> Head(echoes).hasID, ID |-> Head(echoes).ID,
                    authorizedUsers |-> Head(echoes).authorizedUsers,
                    nonAuthorizedCSCs |-> Head(echoes).nonAuthorizedCSCs]
       IN  /\ evt_authList' = [evt_authList EXCEPT ![component] = data]
           /\ authorization' =
                  IF callback[component]
                  THEN _handle_auth_list_for_component(authorization, data,
                                                       component)
                  ELSE authorization
    /\ echoes' = Tail(echoes)
    /\ call' = [op |-> "authList", raised |-> FALSE, ret |-> None]
    /\ UNCHANGED <<auto_accept_request, gen, yielded, auth_request,
                   summary_state, callback, enabling, command, pushes>>

\* A component publishes its lists of its own accord, between commands:
\* users a and b with CSC x, under index 1 when it is indexed.
OwnAuthList(component) ==
    /\ command.state # "in_progress"
    /\ echoes = <<>>
    /\ AuthList(component,
                [hasID |-> component \in Indexed,
                 ID |-> IF component \in Indexed THEN 1 ELSE 0,
                 authorizedUsers |-> <<"a", ",", "b">>,
                 nonAuthorizedCSCs |-> <<"x">>])

\* A component publishes its lists when it starts, before the CSC has received
\* any requestAuthorization; afterwards it publishes them only in response to
\* the setAuthList commands it executes.
InitialAuthList(component) ==
    /\ command.state = "none"
    /\ OwnAuthList(component)

\* The operator of the CSC enables it, possibly several times, before the
\* first requestAuthorization it accepts, and not again after a disable that
\* follows one.
EnableBeforeRequests ==
    /\ gen = NoGenerator
    /\ SendEnable

\* Commands sent to the CSC while it is taken from STANDBY to ENABLED, once
\* it is ENABLED and while it is disabled and enabled again, the target
\* components answering them or not.
NextCommand ==
    \/ \E component \in Remotes : InitialAuthList(component)
    \/ \E auto_authorization \in BOOLEAN : Start(auto_authorization)
    \/ EnableBeforeRequests
    \/ SetAuthListCallback
    \/ Disable
    \/ \E data \in CommandRequests : SendRequestAuthorization(data)
    \/ ProcessRequestStart
    \/ SetAuthList
    \/ SetAuthListAck
    \/ SetAuthListFails
    \/ RequestAuthorizationEnds
    \/ RequestTimeout
    \/ EchoAuthList

SpecCommand == Init /\ [][NextCommand]_vars

\* The requestAuthorization commands whose targets all have a remote.
ReconcileRequests ==
    { data \in CommandRequests :
        \A k \in 1..Len(split(data.cscsToChange, ",")) :
            name_to_name_index(split(data.cscsToChange, ",")[k]).name
                \in Remotes }

\* Commands sent to a CSC whose requests name only components it has a
\* remote for; the indexed component has published its lists before the
\* first request or has not, the other one has not.  Every step of the
\* command path is there: the CSC may be disabled at any time, a setAuthList
\* may fail and the request may reach its time limit.
NextReconcile ==
    \/ \E component \in Indexed : InitialAuthList(component)
    \/ \E auto_authorization \in BOOLEAN : Start(auto_authorization)
    \/ EnableBeforeRequests
    \/ SetAuthListCallback
    \/ Disable
    \/ \E data \in ReconcileRequests : SendRequestAuthorization(data)
    \/ ProcessRequestStart
    \/ SetAuthList
    \/ SetAuthListAck
    \/ SetAuthListFails
    \/ RequestAuthorizationEnds
    \/ RequestTimeout
    \/ EchoAuthList

\* What goes on when nothing stops it.  The event loop runs every coroutine
\* that can go on: the pass of _set_auth_list_callbacks, whose aget returns
\* or times out after timeout_short; the task asyncio.wait_for has made;
\* do_requestAuthorization when that task has ended; set_start when the
\* acknowledgement of the component has come; the callback of an event that
\* has been published.  A target component executes and echoes each
\* setAuthList it has received.  None of this keeps a setAuthList from
\* failing or the request from timing out first: SetAuthListFails,
\* RequestTimeout and Disable may happen whenever they are enabled.
SpecReconcile ==
    /\ Init
    /\ [][NextReconcile]_vars
    /\ WF_vars(SetAuthListCallback)
    /\ WF_vars(ProcessRequestStart)
    /\ WF_vars(SetAuthList)
    /\ WF_vars(SetAuthListAck)
    /\ WF_vars(RequestAuthorizationEnds)
    /\ WF_vars(EchoAuthList)

\* parse_auth_request(auth_request), called on its own.
ParseAuthRequest ==
    /\ call' = [op |-> "parse_auth_request",
                raised |-> parse_auth_request(auth_request).raised,
                ret |-> parse_auth_request(auth_request)]
    /\ UNCHANGED <<authorization, auto_accept_request, gen, yielded,
                   auth_request, cmd_vars, csc_vars>>

\* The parser on every expression of RequestStrings.
InitParse ==
    /\ authorization = << >>
    /\ auto_accept_request = TRUE
    /\ gen = NoGenerator
    /\ yielded = <<>>
    /\ call = [op |-> "__init__", raised |-> FALSE, ret |-> None]
    /\ auth_request \in RequestStrings
    /\ summary_state = "STANDBY"
    /\ callback = [r \in Remotes |-> FALSE]
    /\ evt_authList = [r \in Remotes |-> NoSample]
    /\ enabling = <<>>
    /\ command = NoCommand
    /\ pushes = <<>>
    /\ echoes = <<>>

NextParse == ParseAuthRequest

SpecParse == InitParse /\ [][NextParse]_vars

\* Requests processed by the generator, interleaved at its suspensions with
\* canonical snapshots (set_authorization), mode changes and direct
\* get_authorization calls carrying a request's expressions.
NextRequest ==
    \/ \E c \in Components, s \in Snapshots : SetAuthorization(c, s[1], s[2])
    \/ \E c \in Components, e \in RequestExprs : GetAuthorization(c, e[1], e[2])
    \/ \E auto \in BOOLEAN : SetAuthorizationMode(auto)
    \/ \E data \in Requests : ProcessRequest(data)
    \/ Anext

SpecRequest == Init /\ [][NextRequest]_vars

(***************************************************************************)
(* Properties.                                                             *)
(***************************************************************************)
X1 == <<"X", ":", "1">>
X2 == <<"X", ":", "2">>
a == <<"a">>
b == <<"b">>
x == <<"x">>

Invalid(expression) == parse_auth_request(expression).raised

\* The stored state of a component, two empty sets when it has none.
Current(auth, component) ==
    IF component \in DOMAIN auth
    THEN auth[component]
    ELSE [authorized_users |-> {}, non_authorized_cscs |-> {}]

\* (S \cup to_add) \ to_remove for the sets an expression parses to.
Applied(S, expression) ==
    (S \cup parse_auth_request(expression).to_add)
        \ parse_auth_request(expression).to_remove

GeneratorStep == call'.op \in {"process_request", "__anext__"}

\* C1: every component that is a key of the store has at least one of its
\* two sets non-empty, in every state reachable by set_authorization,
\* get_authorization and set_authorization_mode calls.
C1_PresenceInvariant ==
    \A c \in DOMAIN authorization :
        \/ authorization[c].authorized_users # {}
        \/ authorization[c].non_authorized_cscs # {}

\* C2: get_authorization leaves the store as it was, also for a component
\* that has a stored entry.
C2_GetAuthorizationIsPure ==
    [][call'.op = "get_authorization" => authorization' = authorization]_vars

\* C3: a step of process_request (its start or the request for its next
\* element) never changes the store: only set_authorization does.
C3_OnlyCommitChangesStore ==
    [][GeneratorStep => authorization' = authorization]_vars

\* C4: for valid expressions, get_authorization on a component whose stored
\* state is (U, P) returns ((U + addU) - remU, (P + addP) - remP); empty
\* expressions return (U, P).
C4_DiffCorrectness ==
    [][call'.op = "get_authorization" =>
         \A c \in Components, u \in UserExprs, p \in CSCExprs :
             (~Invalid(u) /\ ~Invalid(p) /\ GetAuthorization(c, u, p)) =>
                 /\ ~call'.raised
                 /\ call'.ret.authorized_users =
                        Applied(Current(authorization, c).authorized_users, u)
                 /\ call'.ret.non_authorized_cscs =
                        Applied(Current(authorization, c).non_authorized_cscs, p)
                 /\ (u = <<>> /\ p = <<>>) =>
                        call'.ret = Current(authorization, c)]_vars

\* A get_authorization call on a stored component that removed user a and
\* added user b and CSC x.
C4_Witness ==
    /\ call.op = "get_authorization"
    /\ ~call.raised
    /\ call.ret = [authorized_users |-> {b}, non_authorized_cscs |-> {x}]
    /\ X1 \in DOMAIN authorization
    /\ X2 \in DOMAIN authorization

\* C5: right after set_authorization(c, U, P) the read of c returns exactly
\* (U, P), whatever the store held, and the same commit again changes nothing.
C5_CommitIsOverwrite ==
    [][call'.op = "set_authorization" =>
         \A c \in Components, u \in SUBSET Users, p \in SUBSET CSCs :
             SetAuthorization(c, u, p) =>
                 /\ Current(authorization', c) =
                        [authorized_users |-> u, non_authorized_cscs |-> p]
                 /\ set_authorization(authorization', c, u, p)
                        = authorization']_vars

\* A commit has left X:1 with user b only while X:2 holds both users and a
\* CSC: the commit did not merge into what the store held.
C5_Witness ==
    /\ call.op = "set_authorization"
    /\ X1 \in DOMAIN authorization
    /\ X2 \in DOMAIN authorization
    /\ authorization[X1] = [authorized_users |-> {b}, non_authorized_cscs |-> {}]
    /\ authorization[X2] = [authorized_users |-> {a, b},
                            non_authorized_cscs |-> {x}]

\* C6: after set_authorization(c, {}, {}) c is not a key of the store and
\* its read returns two empty sets, whatever c held before.
C6_Pruning ==
    [][call'.op = "set_authorization" =>
         \A c \in Components :
             SetAuthorization(c, {}, {}) =>
                 /\ c \notin DOMAIN authorization'
                 /\ Current(authorization', c) =
                        [authorized_users |-> {}, non_authorized_cscs |-> {}]]_vars

\* The generator computed a result for X:1 from a stored entry holding user
\* b, and a later commit of two empty sets has removed X:1 from the store.
C6_Witness ==
    /\ call.op = "set_authorization"
    /\ gen.pc = "suspended"
    /\ Len(yielded) = 1
    /\ yielded[1].component = X1
    /\ yielded[1].auth_list.authorizedUsers = b
    /\ X1 \notin DOMAIN authorization
    /\ X2 \in DOMAIN authorization

\* C7: process_request started in Manual mode fails with the not-supported
\* error, yields nothing and leaves the store unchanged.
C7_ModeGating ==
    [][(call'.op = "process_request" /\ ~auto_accept_request) =>
         /\ call'.raised
         /\ gen'.pc = "raised"
         /\ gen'.error = "NotImplementedError"
         /\ yielded' = <<>>
         /\ authorization' = authorization]_vars

\* A request refused in Manual mode while the store holds an entry for its
\* target.
C7_Witness ==
    /\ call.op = "process_request"
    /\ ~auto_accept_request
    /\ gen.error = "NotImplementedError"
    /\ ~Invalid(gen.data.authorizedUsers)
    /\ ~Invalid(gen.data.nonAuthorizedCSCs)
    /\ split(gen.data.cscsToChange, ",")[1] \in DOMAIN authorization

\* The results yielded so far name the first targets of the request, in
\* the order given, and a generator that has finished has yielded one result
\* per target; a generator raises only in Manual mode or for an invalid
\* expression.
OneResultPerTarget ==
    /\ gen.pc = "raised" =>
           \/ gen.error = "NotImplementedError"
           \/ Invalid(gen.data.authorizedUsers)
           \/ Invalid(gen.data.nonAuthorizedCSCs)
    /\ gen.pc \in {"suspended", "finished"} =>
           \E ts \in TargetLists :
               /\ gen.data.cscsToChange = join(",", ts)
               /\ Len(yielded) <= Len(ts)
               /\ \A k \in 1..Len(yielded) : yielded[k].component = ts[k]
               /\ gen.pc = "finished" => Len(yielded) = Len(ts)

\* C8: in Automatic mode with valid expressions the generator does not
\* raise, its results name the targets of the request in the order given,
\* one result per entry (duplicates included), and then it terminates: each
\* resumption before the last target adds the result of the next target to
\* those yielded, and the resumption that follows the result of the last
\* target ends the generator, which yields nothing more and does not raise.
C8_OneResultPerTarget ==
    /\ []OneResultPerTarget
    /\ [][(/\ call'.op = "__anext__"
           /\ ~Invalid(gen.data.authorizedUsers)
           /\ ~Invalid(gen.data.nonAuthorizedCSCs)) =>
             LET ts == split(gen.data.cscsToChange, ",")
             IN  /\ ~call'.raised
                 /\ gen'.data = gen.data
                 /\ IF Len(yielded) < Len(ts)
                    THEN /\ gen'.pc = "suspended"
                         /\ Len(yielded') = Len(yielded) + 1
                         /\ \A k \in 1..Len(yielded) :
                                yielded'[k] = yielded[k]
                         /\ yielded'[Len(yielded')].component
                                = ts[Len(yielded')]
                    ELSE /\ gen'.pc = "finished"
                         /\ yielded' = yielded]_vars

\* A finished request whose target list names the same component twice.
C8_Witness ==
    /\ gen.pc = "finished"
    /\ Len(yielded) = 2
    /\ yielded[1].component = yielded[2].component

\* C9: each result names its own target and carries the request's two
\* expressions applied to the state the store holds for that target when the
\* result is computed.
C9_ResultFromOwnState ==
    [][(GeneratorStep /\ gen'.pc = "suspended") =>
         LET k == Len(yielded')
             result == yielded'[k]
             target == split(gen'.data.cscsToChange, ",")[k]
             current == Current(authorization, target)
         IN  /\ k = Len(IF call'.op = "__anext__" THEN yielded ELSE <<>>) + 1
             /\ result.component = target
             /\ result.auth_list.authorizedUsers \in
                    join_set(Applied(current.authorized_users,
                                     gen'.data.authorizedUsers))
             /\ result.auth_list.nonAuthorizedCSCs \in
                    join_set(Applied(current.non_authorized_cscs,
                                     gen'.data.nonAuthorizedCSCs))]_vars

\* Two targets with different stored states got different results.
C9_Witness ==
    /\ gen.pc = "finished"
    /\ Len(yielded) = 2
    /\ yielded[1].component = X1
    /\ yielded[2].component = X2
    /\ yielded[1].auth_list.authorizedUsers = b
    /\ yielded[2].auth_list.authorizedUsers = <<>>

\* C10: with an invalid expression, get_authorization raises and
\* process_request raises the validation error without yielding a result,
\* and the store is what it was before the call.
C10_ValidationFailureKeepsStore ==
    [][/\ call'.op = "get_authorization" =>
            \A c \in Components, e \in RequestExprs :
                ((Invalid(e[1]) \/ Invalid(e[2])) /\ GetAuthorization(c, e[1], e[2])) =>
                    call'.raised /\ authorization' = authorization
       /\ (call'.op = "process_request" /\ auto_accept_request) =>
               \/ /\ call'.raised
                  /\ gen'.pc = "raised"
                  /\ gen'.error = "RuntimeError"
                  /\ yielded' = <<>>
                  /\ authorization' = authorization
               \/ /\ ~Invalid(gen'.data.authorizedUsers)
                  /\ ~Invalid(gen'.data.nonAuthorizedCSCs)]_vars

\* A request with a valid users expression and an invalid CSCs expression
\* has raised while the store holds an entry for its target.
C10_Witness ==
    /\ call.op = "process_request"
    /\ gen.error = "RuntimeError"
    /\ ~Invalid(gen.data.authorizedUsers)
    /\ Invalid(gen.data.nonAuthorizedCSCs)
    /\ a \in Current(authorization,
                     split(gen.data.cscsToChange, ",")[1]).authorized_users

(***************************************************************************)
(* Properties of parse_auth_request (specification SpecParse).             *)
(***************************************************************************)
\* The comma-separated tokens of an expression, by position: the comma-free
\* stretches that begin at the start or after a comma and end at the end or
\* before a comma.
Tokens(s) ==
    { SubSeq(s, p[1], p[2]) :
        p \in { q \in (1..(Len(s) + 1)) \X (0..Len(s)) :
                   /\ q[1] <= q[2] + 1
                   /\ (q[1] = 1 \/ s[q[1] - 1] = ",")
                   /\ (q[2] = Len(s) \/ s[q[2] + 1] = ",")
                   /\ \A k \in q[1]..q[2] : s[k] # "," } }

Additions(s) == { t \in Tokens(s) : Len(t) > 0 /\ t[1] = "+" }

Removals(s) == { t \in Tokens(s) : Len(t) > 0 /\ t[1] = "-" }

Unprefixed(s) == Tokens(s) \ (Additions(s) \cup Removals(s))

\* The tokens whose item is both added and removed.
Conflicting(s) ==
    { t \in Additions(s) \cup Removals(s) :
        \E u \in Additions(s), v \in Removals(s) :
            Tail(u) = Tail(v) /\ Tail(t) = Tail(u) }

Parsed == call.op = "parse_auth_request"

\* C11: an expression whose tokens all start with + or - and in which no
\* item is both added and removed parses successfully, to_add being the
\* items of the + tokens and to_remove the items of the - tokens; the empty
\* expression gives two empty sets.
C11_ParserResult ==
    Parsed =>
        /\ (Unprefixed(auth_request) = {} /\ Conflicting(auth_request) = {})
               => /\ ~call.raised
                  /\ call.ret.to_add
                         = { Tail(t) : t \in Additions(auth_request) }
                  /\ call.ret.to_remove
                         = { Tail(t) : t \in Removals(auth_request) }
        /\ auth_request = <<>>
               => /\ ~call.raised
                  /\ call.ret.to_add = {}
                  /\ call.ret.to_remove = {}

\* "+a,-b,+b" without the conflict: "+a,-b,+" adds a and the empty item and
\* removes b.
C11_Witness ==
    /\ Parsed
    /\ auth_request = <<"+", "a", ",", "-", "b", ",", "+">>
    /\ ~call.raised
    /\ call.ret.to_add = { <<"a">>, <<>> }
    /\ call.ret.to_remove = { <<"b">> }

\* C12: a non-empty expression with a token that starts with neither + nor -
\* (an empty token included) fails, and the entries reported invalid are
\* exactly the tokens without a prefix.
C12_MissingPrefix ==
    (Parsed /\ auth_request # <<>> /\ Unprefixed(auth_request) # {})
        => /\ call.raised
           /\ call.ret.bad_entries = Unprefixed(auth_request)

\* "-a,b,": b and the empty token after the stray comma are reported.
C12_Witness ==
    /\ Parsed
    /\ auth_request = <<"-", "a", ",", "b", ",">>
    /\ call.raised
    /\ call.ret.bad_entries = { <<"b">>, <<>> }

\* C13: an expression in which some item is both added and removed fails in
\* parse_auth_request, and so does get_authorization given it in either
\* field.
C13_ConflictDetection ==
    (Parsed /\ Conflicting(auth_request) # {})
        => /\ call.raised
           /\ get_authorization(authorization, X1, auth_request, <<>>).raised
           /\ get_authorization(authorization, X1, <<>>, auth_request).raised

\* "+a,-a,+b": the conflict on a next to the valid token +b.
C13_Witness ==
    /\ Parsed
    /\ auth_request = <<"+", "a", ",", "-", "a", ",", "+", "b">>
    /\ Conflicting(auth_request) = { <<"+", "a">>, <<"-", "a">> }
    /\ call.raised

\* C14: whenever parse_auth_request fails, the set of entries it lists as
\* invalid is not empty and holds every offending token: those without a
\* prefix and those of an item both added and removed.
C14_FailureNamesOffenders ==
    (Parsed /\ call.raised)
        => /\ call.ret.bad_entries # {}
           /\ Unprefixed(auth_request) \subseteq call.ret.bad_entries
           /\ Conflicting(auth_request) \subseteq call.ret.bad_entries

\* C15: whenever parse_auth_request succeeds, to_add and to_remove have no
\* item in common.
C15_DisjointOnSuccess ==
    (Parsed /\ ~call.raised)
        => call.ret.to_add \cap call.ret.to_remove = {}

C15_Witness ==
    /\ Parsed
    /\ auth_request = <<"-", "a", ",", "+", "b">>
    /\ ~call.raised
    /\ call.ret.to_add = { <<"b">> }
    /\ call.ret.to_remove = { <<"a">> }

(***************************************************************************)
(* Properties of the mode flag and of the read of one component.           *)
(***************************************************************************)
\* C16: set_authorization_mode(auto) sets the mode flag to auto and changes
\* neither the store nor a request in progress; no other operation changes
\* the flag, which is true after construction; and a process_request is
\* refused with the not-supported error exactly when the flag is false.
C16_ModeChangesOnlyFlag ==
    [][/\ call.op = "__init__" => auto_accept_request
       /\ call'.op = "set_authorization_mode" =>
              /\ auto_accept_request' = call'.auto
              /\ authorization' = authorization
              /\ gen' = gen
              /\ yielded' = yielded
       /\ call'.op # "set_authorization_mode" =>
              auto_accept_request' = auto_accept_request
       /\ call'.op = "process_request" =>
              (gen'.error = "NotImplementedError" <=> ~auto_accept_request)]_vars

\* The mode switched to Manual while the store holds an entry and a request
\* is suspended after its first result.
C16_Witness ==
    /\ call.op = "set_authorization_mode"
    /\ ~call.auto
    /\ ~auto_accept_request
    /\ X1 \in DOMAIN authorization
    /\ gen.pc = "suspended"
    /\ Len(yielded) = 1

\* C17: get_component_authorization returns the stored pair of sets of a
\* component that is a key of the store and two empty sets otherwise, and
\* leaves the store as it was: a component that was absent is still absent.
C17_ReadIsPure ==
    [][call'.op = "get_component_authorization" =>
         /\ authorization' = authorization
         /\ call'.component \in DOMAIN authorization =>
                call'.ret = authorization[call'.component]
         /\ call'.component \notin DOMAIN authorization =>
                /\ call'.ret.authorized_users = {}
                /\ call'.ret.non_authorized_cscs = {}
                /\ call'.component \notin DOMAIN authorization']_vars

\* X:1 read while absent from a store that holds X:2.
C17_Witness ==
    /\ call.op = "get_component_authorization"
    /\ call.component = X1
    /\ X1 \notin DOMAIN authorization
    /\ X2 \in DOMAIN authorization
    /\ call.ret.authorized_users = {}
    /\ call.ret.non_authorized_cscs = {}

(***************************************************************************)
(* Properties of the monitoring of authList events (specification SpecCSC).*)
(***************************************************************************)
Y == <<"Y">>

\* The identity under which the sample of a component is stored: the name,
\* followed by a colon and the index when the sample carries one.
Identity(component, data) ==
    IF component \in Indexed
    THEN component \o <<":">> \o str(data.ID)
    ELSE component

\* The entries of a comma-separated list, empty strings dropped.
Listed(s) == Tokens(s) \ { <<>> }

\* The store holds for the sample's identity exactly the two lists of the
\* sample, and no entry when both lists are empty.
Holds(auth, component, data) ==
    /\ Current(auth, Identity(component, data)).authorized_users
           = Listed(data.authorizedUsers)
    /\ Current(auth, Identity(component, data)).non_authorized_cscs
           = Listed(data.nonAuthorizedCSCs)
    /\ (Listed(data.authorizedUsers) = {} /\ Listed(data.nonAuthorizedCSCs) = {})
           => Identity(component, data) \notin DOMAIN auth

\* C18 as stated: while the CSC is ENABLED, every authList sample received
\* from a handled component is committed: afterwards the store holds for the
\* sample's identity its two lists split on commas without empty strings,
\* and no entry when both are empty.  It fails for a sample received while
\* end_enable has not yet made the pass of its remote: no callback is set,
\* the sample is not committed, and it never is when another sample of that
\* remote (X:2 after X:1) follows before the pass, whose aget returns the
\* most recent one only.
C18_EveryEventCommitted ==
    [][\A component \in Remotes :
         \A data \in Samples(component) :
           (/\ AuthList(component, data)
            /\ summary_state = "ENABLED")
               => Holds(authorization', component, data)]_vars

\* C18, amended: while the CSC is ENABLED, every authList sample received
\* from a handled component whose callback is set (every one once the enable
\* has completed) is committed: afterwards the store holds for the sample's
\* identity its two lists split on commas without empty strings, and no
\* entry when both are empty.
C18_EventsCommittedWhileEnabled ==
    [][\A component \in Remotes :
         \A data \in Samples(component) :
           (/\ AuthList(component, data)
            /\ summary_state = "ENABLED"
            /\ (enabling = <<>> \/ callback[component]))
               => Holds(authorization', component, data)]_vars

\* While ENABLED, X:2 has published "a,b" / "x" and Y an empty list; the
\* last sample received was committed.
C18_Witness ==
    /\ call.op = "authList"
    /\ summary_state = "ENABLED"
    /\ enabling = <<>>
    /\ evt_authList[<<"X">>] =
           [hasID |-> TRUE, ID |-> 2,
            authorizedUsers |-> <<"a", ",", "b">>, nonAuthorizedCSCs |-> <<"x">>]
    /\ evt_authList[Y] =
           [hasID |-> FALSE, ID |-> 0,
            authorizedUsers |-> <<>>, nonAuthorizedCSCs |-> <<>>]
    /\ authorization[X2] =
           [authorized_users |-> { a, b }, non_authorized_cscs |-> { x }]
    /\ Y \notin DOMAIN authorization

\* C19: no step that leaves the CSC not ENABLED changes the store: authList
\* samples received before the first enable leave the store empty, those
\* received after a disable leave it with its last values.  It fails when
\* the disable comes while end_enable still awaits an aget: the passes that
\* remain commit samples and set callbacks in state DISABLED, and the samples
\* received afterwards are committed too.
C19_NoCommitUnlessEnabled ==
    [][(summary_state # "ENABLED" /\ summary_state' # "ENABLED")
           => authorization' = authorization]_vars

\* C20: when the last pass of _set_auth_list_callbacks ends the CSC is
\* ENABLED, every remote has its callback set, and for every remote that has
\* received a sample the store holds the lists of its most recent one; a
\* remote without sample does not prevent it.  It fails when a disable has
\* come during the passes: the last pass ends in state DISABLED with the
\* callbacks of the remotes visited before the disable unset.
C20_EnableCommitsPublishedLists ==
    [][(call'.op = "_set_auth_list_callbacks" /\ enabling' = <<>>) =>
         /\ summary_state' = "ENABLED"
         /\ \A r \in Remotes :
                /\ callback'[r]
                /\ evt_authList'[r] # NoSample
                       => Holds(authorization', r, evt_authList'[r])]_vars

(***************************************************************************)
(* Properties of a request in progress.                                    *)
(***************************************************************************)
\* C25: the mode is checked when process_request starts and not again: a
\* generator resumed in Manual mode does not fail with the not-supported
\* error and, its expressions being valid, yields the result of its next
\* target or finishes after the last one; a request started in Manual mode
\* fails with that error.
C25_ModeGateEvaluatedOnce ==
    [][/\ (call'.op = "__anext__" /\ ~auto_accept_request) =>
              /\ gen'.error # "NotImplementedError"
              /\ (~Invalid(gen.data.authorizedUsers)
                      /\ ~Invalid(gen.data.nonAuthorizedCSCs)) =>
                     /\ ~call'.raised
                     /\ IF gen.index < Len(gen.targets)
                        THEN /\ gen'.pc = "suspended"
                             /\ Len(yielded') = Len(yielded) + 1
                             /\ yielded'[Len(yielded')].component
                                    = gen.targets[gen.index + 1]
                        ELSE /\ gen'.pc = "finished"
                             /\ yielded' = yielded
       /\ (call'.op = "process_request" /\ ~auto_accept_request) =>
              gen'.pc = "raised" /\ gen'.error = "NotImplementedError"]_vars

\* The second result of a request was yielded while the mode was Manual.
C25_Witness ==
    /\ call.op = "__anext__"
    /\ ~auto_accept_request
    /\ gen.pc = "suspended"
    /\ Len(yielded) = 2

\* C27: set_authorization(c, U, P) changes neither the presence nor the two
\* sets of any component other than c, nor the mode flag.
C27_CommitIsLocal ==
    [][call'.op = "set_authorization" =>
         /\ auto_accept_request' = auto_accept_request
         /\ \A c \in Components, u \in SUBSET Users, p \in SUBSET CSCs :
                SetAuthorization(c, u, p) =>
                    \A d \in (DOMAIN authorization \cup DOMAIN authorization') \ {c} :
                        /\ d \in DOMAIN authorization
                        /\ d \in DOMAIN authorization'
                        /\ authorization'[d] = authorization[d]]_vars

\* X:1 was committed while X:2 is stored with two empty sets (left so by
\* get_authorization), and X:2 is still stored.
C27_Witness ==
    /\ call.op = "set_authorization"
    /\ X1 \in DOMAIN authorization
    /\ authorization[X1].authorized_users = { a, b }
    /\ X2 \in DOMAIN authorization
    /\ authorization[X2].authorized_users = {}
    /\ authorization[X2].non_authorized_cscs = {}

\* C28: computing a desired state never changes the set of store keys:
\* after a get_authorization, and after every step of a process_request, the
\* components stored are those stored before, so a component that was absent
\* is still absent and the store is unchanged when the component computed for
\* was absent.
C28_AbsentStaysAbsent ==
    [][/\ (call'.op = "get_authorization" \/ GeneratorStep) =>
              DOMAIN authorization' = DOMAIN authorization
       /\ call'.op = "get_authorization" =>
              \A c \in Components, e \in RequestExprs :
                  (GetAuthorization(c, e[1], e[2]) /\ c \notin DOMAIN authorization)
                      => authorization' = authorization
       /\ (GeneratorStep /\ gen'.pc = "suspended"
              /\ yielded'[Len(yielded')].component \notin DOMAIN authorization) =>
              authorization' = authorization]_vars

\* A request for X:1 and X:2 was consumed to its end with a result that adds
\* x for each, and the store is still empty.
C28_Witness ==
    /\ call.op = "__anext__"
    /\ gen.pc = "finished"
    /\ Len(yielded) = 2
    /\ yielded[1].component = X1
    /\ yielded[2].component = X2
    /\ yielded[1].auth_list.nonAuthorizedCSCs = x
    /\ yielded[2].auth_list.nonAuthorizedCSCs = x
    /\ DOMAIN authorization = {}

\* C21: a requestAuthorization received in a summary state other than
\* ENABLED is rejected: the command fails with the error of assert_enabled,
\* no generator is made, no result is computed, no setAuthList is sent and
\* the store is as it was, at that step and until the next command; one
\* received in the ENABLED state is acknowledged as in progress.
C21_OnlyWhenEnabled ==
    [][/\ (call'.op = "requestAuthorization" /\ command.state # "in_progress") =>
              IF summary_state # "ENABLED"
              THEN /\ call'.raised
                   /\ command' = [state |-> "failed", error |-> "ExpectedError"]
                   /\ gen' = NoGenerator
                   /\ yielded' = <<>>
                   /\ pushes' = <<>>
                   /\ authorization' = authorization
              ELSE command'.error # "ExpectedError"
       /\ (command.error = "ExpectedError" /\ command' = command) =>
              /\ ~GeneratorStep
              /\ call'.op # "setAuthList"
              /\ pushes' = <<>>]_vars

\* A command refused in state DISABLED, X having published its lists.
C21_Witness ==
    /\ call.op = "requestAuthorization"
    /\ summary_state = "DISABLED"
    /\ command = [state |-> "failed", error |-> "ExpectedError"]
    /\ evt_authList[<<"X">>] # NoSample
    /\ pushes = <<>>
    /\ gen = NoGenerator

\* The remote and the index a target of a command is sent to.
Destination(target) ==
    IF target = X1 THEN [component |-> <<"X">>, ID |-> 1]
    ELSE [component |-> target, ID |-> 0]

\* C23: the setAuthList commands of one request are sent one at a time and
\* in the order of its targets: every command but the last has been
\* acknowledged, at most one is awaiting its acknowledgement, and the k-th
\* goes to the k-th target with the lists of the k-th result.
C23_SequentialPushes ==
    /\ \A k \in 1..(Len(pushes) - 1) : pushes[k].status = "acked"
    /\ Cardinality({ k \in 1..Len(pushes) :
                        pushes[k].status \in {"sent", "done"} }) <= 1
    /\ Len(pushes) <= Len(yielded)
    /\ \A k \in 1..Len(pushes) :
           /\ yielded[k].component = split(gen.data.cscsToChange, ",")[k]
           /\ pushes[k].component = Destination(yielded[k].component).component
           /\ pushes[k].ID = Destination(yielded[k].component).ID
           /\ pushes[k].hasID = (yielded[k].component = X1)
           /\ pushes[k].authorizedUsers = yielded[k].auth_list.authorizedUsers
           /\ pushes[k].nonAuthorizedCSCs
                  = yielded[k].auth_list.nonAuthorizedCSCs

\* A request for Y then X:1: the command to Y was acknowledged and the one
\* to X, index 1, is awaiting its acknowledgement.
C23_Witness ==
    /\ command.state = "in_progress"
    /\ Len(pushes) = 2
    /\ pushes[1].component = Y
    /\ pushes[1].status = "acked"
    /\ pushes[2].component = <<"X">>
    /\ pushes[2].ID = 1
    /\ pushes[2].status = "sent"

\* A step that receives a new command.
NewCommand ==
    call'.op = "requestAuthorization" /\ command.state # "in_progress"

\* The processing of the request has stopped before its end: its task has
\* ended with an exception (no remote for a target, a setAuthList that
\* failed) or the command has failed (the same, or the time limit).
Stopped ==
    \/ command.state = "failed"
    \/ TaskEnded /\ TaskError # ""

\* C24: a request that has stopped after its first targets (no remote for a
\* target, a setAuthList that failed, the time limit) sends nothing more and
\* takes nothing back: at the step that stops it and at every later step of
\* the same command the setAuthList commands sent are the same, in number,
\* destination and lists, and one that was delivered stays delivered.
C24_NoRollback ==
    [][(~NewCommand /\ Stopped') =>
         /\ Len(pushes') = Len(pushes)
         /\ Len(pushes') <= Len(yielded')
         /\ \A k \in 1..Len(pushes) :
                /\ [pushes'[k] EXCEPT !.status = "sent"]
                       = [pushes[k] EXCEPT !.status = "sent"]
                /\ pushes[k].status \in {"done", "acked"} =>
                       pushes'[k].status \in {"done", "acked"}
         /\ yielded' = yielded \/ call'.op \in {"__anext__", "process_request"}]_vars

\* A request for Y then X:1 failed at X:1, whose setAuthList failed: the
\* command to Y stays acknowledged and the lists it carried, which Y echoed,
\* are in the store.
C24_Witness ==
    /\ command = [state |-> "failed", error |-> "AckError"]
    /\ Len(pushes) = 2
    /\ pushes[1].component = Y
    /\ pushes[1].status = "acked"
    /\ pushes[1].authorizedUsers = <<>>
    /\ pushes[1].nonAuthorizedCSCs = x
    /\ pushes[2].status = "failed"
    /\ echoes = <<>>
    /\ Y \in DOMAIN authorization
    /\ authorization[Y].authorized_users = {}
    /\ authorization[Y].non_authorized_cscs = { x }

\* C26: the result the generator yields when it is resumed is computed from
\* the store as it is at that moment: its two lists are the request's
\* expressions applied to the sets the store then holds for the target,
\* whatever was committed since the request was submitted.
C26_LazyAgainstLiveStore ==
    [][(call'.op = "__anext__" /\ gen'.pc = "suspended") =>
         LET result == yielded'[Len(yielded')]
             current == Current(authorization, result.component)
         IN  /\ result.component = gen.targets[gen.index + 1]
             /\ Listed(result.auth_list.authorizedUsers)
                    = (current.authorized_users
                           \cup { Tail(t) : t \in Additions(gen.data.authorizedUsers) })
                       \ { Tail(t) : t \in Removals(gen.data.authorizedUsers) }
             /\ Listed(result.auth_list.nonAuthorizedCSCs)
                    = (current.non_authorized_cscs
                           \cup { Tail(t) : t \in Additions(gen.data.nonAuthorizedCSCs) })
                       \ { Tail(t) : t \in Removals(gen.data.nonAuthorizedCSCs) }]_vars

\* X:1 is named twice by a request that removes a: the first result keeps
\* b, and the second, computed after the snapshot (a; no CSC) was committed
\* for X:1, has no user.
C26_Witness ==
    /\ call.op = "__anext__"
    /\ Len(yielded) = 2
    /\ yielded[1].component = X1
    /\ yielded[2].component = X1
    /\ yielded[1].auth_list.authorizedUsers = b
    /\ yielded[2].auth_list.authorizedUsers = <<>>
    /\ authorization[X1].authorized_users = {}

\* The store holds for every target of the request the lists of the last
\* result computed for it.
Reconciled ==
    \A k \in 1..Len(yielded) :
        LET last == CHOOSE j \in k..Len(yielded) :
                        /\ yielded[j].component = yielded[k].component
                        /\ \A i \in (j + 1)..Len(yielded) :
                               yielded[i].component # yielded[k].component
            current == Current(authorization, yielded[k].component)
        IN  /\ current.authorized_users
                   = Listed(yielded[last].auth_list.authorizedUsers)
            /\ current.non_authorized_cscs
                   = Listed(yielded[last].auth_list.nonAuthorizedCSCs)

\* The request is done with one result per target, every echo received,
\* every callback installed and the store reconciled.
RequestReconciled ==
    /\ command.state = "done"
    /\ Len(yielded) = Len(split(gen.data.cscsToChange, ","))
    /\ echoes = <<>>
    /\ enabling = <<>>
    /\ Reconciled

====
